---- MODULE Spec2Model ----
(***************************************************************************)
(* Model of src/src/datetime.rs: WMIDateTime parsing (FromStr, both the    *)
(* chrono build and the time-instead-of-chrono build), the serde decode    *)
(* adapter (DateTimeVisitor / Deserialize) and the encode adapter          *)
(* (Serialize).  Strings are sequences of UTF-8 bytes; an ASCII byte is    *)
(* the one-character string of its character, and the two bytes of a       *)
(* two-byte character are LeadByte and ContByte.                           *)
(***************************************************************************)
EXTENDS Integers, Sequences, FiniteSets, TLC

\* ------------------------------------------------------------------------
\* Bytes and strings
\* ------------------------------------------------------------------------
LeadByte == "C3"
ContByte == "A9"

Digits == {"0", "1", "2", "3", "4", "5", "6", "7", "8", "9"}

DigitVal(c) ==
  CASE c = "0" -> 0 [] c = "1" -> 1 [] c = "2" -> 2 [] c = "3" -> 3
    [] c = "4" -> 4 [] c = "5" -> 5 [] c = "6" -> 6 [] c = "7" -> 7
    [] c = "8" -> 8 [] c = "9" -> 9

DigitChar(d) == <<"0", "1", "2", "3", "4", "5", "6", "7", "8", "9">>[d + 1]

IsDigit(c) == c \in Digits

\* str::is_char_boundary: index 0, the length, or a byte that is not a
\* UTF-8 continuation byte (indices are 0-based byte offsets).
IsCharBoundary(s, i) ==
  \/ i = 0
  \/ i = Len(s)
  \/ (i < Len(s) /\ s[i + 1] # ContByte)

\* str::len counts bytes; chars().count() counts the non-continuation bytes.
CharCount(s) == Cardinality({i \in 1..Len(s) : s[i] # ContByte})

SliceFrom(s, i) == SubSeq(s, i + 1, Len(s))
SliceTo(s, i) == SubSeq(s, 1, i)

\* ------------------------------------------------------------------------
\* i32 arithmetic
\* ------------------------------------------------------------------------
I32Min == (-2147483647) - 1

RECURSIVE AccumulateI32(_, _, _, _)
\* core::num from_str_radix: digits are accumulated with checked_mul and
\* checked_add (checked_sub for a negative number); acc keeps the sign.
AccumulateI32(s, i, neg, acc) ==
  IF i > Len(s) THEN [ok |-> TRUE, val |-> acc]
  ELSE IF ~IsDigit(s[i]) THEN [ok |-> FALSE, val |-> 0]
  ELSE LET d == DigitVal(s[i]) IN
       IF neg
       THEN IF acc < -214748364 \/ (acc = -214748364 /\ d > 8)
            THEN [ok |-> FALSE, val |-> 0]
            ELSE AccumulateI32(s, i + 1, neg, acc * 10 - d)
       ELSE IF acc > 214748364 \/ (acc = 214748364 /\ d > 7)
            THEN [ok |-> FALSE, val |-> 0]
            ELSE AccumulateI32(s, i + 1, neg, acc * 10 + d)

\* str::parse::<i32>: an optional sign, then at least one digit, nothing else.
ParseI32(s) ==
  IF Len(s) = 0 THEN [ok |-> FALSE, val |-> 0]
  ELSE IF s[1] \in {"+", "-"}
       THEN IF Len(s) = 1 THEN [ok |-> FALSE, val |-> 0]
            ELSE AccumulateI32(SliceFrom(s, 1), 1, s[1] = "-", 0)
       ELSE AccumulateI32(s, 1, FALSE, 0)

\* m * 60 overflows i32
MulOverflows(m) == m > 35791394 \/ m < -35791394

\* m * 60 modulo 2^32 as a signed 32-bit value, computed on 16-bit limbs.
WrappingMul60(m) ==
  IF m = I32Min THEN 0
  ELSE LET a  == IF m < 0 THEN -m ELSE m
           p  == (a % 65536) * 60
           l0 == p % 65536
           h0 == ((a \div 65536) * 60 + (p \div 65536)) % 65536
           l  == IF m < 0 THEN (65536 - l0) % 65536 ELSE l0
           h  == IF m < 0
                 THEN (65535 - h0 + (IF l0 = 0 THEN 1 ELSE 0)) % 65536
                 ELSE h0
       IN IF h >= 32768 THEN (h - 65536) * 65536 + l ELSE h * 65536 + l

Abs(x) == IF x < 0 THEN -x ELSE x

RECURSIVE PadZero(_, _)
\* format!("{:0w$}", n) for a non-negative n
PadZero(n, w) ==
  IF w = 0 THEN <<>>
  ELSE IF w = 1 /\ n >= 10 THEN PadZero(n \div 10, 1) \o <<DigitChar(n % 10)>>
  ELSE PadZero(n \div 10, w - 1) \o <<DigitChar(n % 10)>>

\* ------------------------------------------------------------------------
\* Results
\* ------------------------------------------------------------------------
NoDT == [year |-> 0, month |-> 0, day |-> 0, hour |-> 0, minute |-> 0,
         second |-> 0, nano |-> 0, offset |-> 0]

\* Ok(Self(dt))
Ok(dt) == [tag |-> "Ok", err |-> "none", field |-> "none", dt |-> dt]
\* Err(WMIError::<err>); field is the component a time error names
Err(e, f) == [tag |-> "Err", err |-> e, field |-> f, dt |-> NoDT]
\* the call unwinds (panic!) instead of returning
Panic(why) == [tag |-> "Panic", err |-> why, field |-> "none", dt |-> NoDT]
NoResult == [tag |-> "None", err |-> "none", field |-> "none", dt |-> NoDT]

\* ------------------------------------------------------------------------
\* Calendar
\* ------------------------------------------------------------------------
IsLeapYear(y) == (y % 4 = 0 /\ y % 100 # 0) \/ y % 400 = 0

DaysInMonth(y, m) ==
  IF m = 2 THEN (IF IsLeapYear(y) THEN 29 ELSE 28)
  ELSE IF m \in {4, 6, 9, 11} THEN 30 ELSE 31

\* ------------------------------------------------------------------------
\* chrono backend: tz.datetime_from_str(datetime_part, "%Y%m%d%H%M%S.%f")
\* ------------------------------------------------------------------------
\* Values of scanned digit runs saturate here; every bound they are compared
\* with (year, month, day, ..., nanosecond) is smaller.
Saturate == 1000000000

ChronoMinYear == -262144
ChronoMaxYear == 262143

RECURSIVE LeadingDigits(_, _)
\* number of leading ASCII digits of s, at most max
LeadingDigits(s, max) ==
  IF max = 0 \/ Len(s) = 0 \/ ~IsDigit(s[1]) THEN 0
  ELSE 1 + LeadingDigits(SliceFrom(s, 1), max - 1)

RECURSIVE DigitsValue(_, _)
DigitsValue(s, acc) ==
  IF Len(s) = 0 THEN acc
  ELSE IF acc >= Saturate \div 10 THEN Saturate
  ELSE DigitsValue(SliceFrom(s, 1), acc * 10 + DigitVal(s[1]))

RECURSIVE TrimLeft(_)
\* str::trim_left
TrimLeft(s) ==
  IF Len(s) > 0 /\ s[1] = " " THEN TrimLeft(SliceFrom(s, 1)) ELSE s

\* chrono::format::scan::number(s, min, max)
ScanNumber(s, min, max) ==
  LET n == LeadingDigits(s, max) IN
  IF Len(s) < min \/ n < min
  THEN [ok |-> FALSE, val |-> 0, rest |-> s]
  ELSE [ok |-> TRUE, val |-> DigitsValue(SliceTo(s, n), 0),
        rest |-> SliceFrom(s, n)]

\* chrono::format::parse, Item::Numeric: leading whitespace is skipped; a
\* signed item (the year) takes an explicit sign and then any number of
\* digits, otherwise between one and width digits.
ChronoNumeric(s0, width, signed) ==
  LET s == TrimLeft(s0) IN
  IF signed /\ Len(s) > 0 /\ s[1] = "-"
  THEN LET r == ScanNumber(SliceFrom(s, 1), 1, Len(s)) IN
       [ok |-> r.ok, val |-> -r.val, rest |-> r.rest]
  ELSE IF signed /\ Len(s) > 0 /\ s[1] = "+"
  THEN ScanNumber(SliceFrom(s, 1), 1, Len(s))
  ELSE ScanNumber(s, 1, width)

\* chrono::format::parse, Item::Literal(".")
ChronoLiteral(s) ==
  IF Len(s) > 0 /\ s[1] = "." THEN [ok |-> TRUE, rest |-> SliceFrom(s, 1)]
  ELSE [ok |-> FALSE, rest |-> s]

\* Parsed::to_datetime_with_timezone: NaiveDate::from_ymd_opt, the hour,
\* minute, second (60 is a leap second) and nanosecond ranges; the local
\* date and time are kept as parsed and paired with the offset.
ChronoToDateTime(y, mo, d, h, mi, sec, ns, off) ==
  IF /\ y >= ChronoMinYear /\ y <= ChronoMaxYear
     /\ mo >= 1 /\ mo <= 12
     /\ d >= 1 /\ d <= DaysInMonth(y, mo)
     /\ h <= 23 /\ mi <= 59 /\ sec <= 60 /\ ns <= 999999999
  THEN Ok([year |-> y, month |-> mo, day |-> d, hour |-> h, minute |-> mi,
           second |-> sec, nano |-> ns, offset |-> off])
  ELSE Err("ParseDatetimeError", "none")

DatetimeFromStr(s, off) ==
  LET bad == Err("ParseDatetimeError", "none")
      y   == ChronoNumeric(s, 4, TRUE)
      mo  == ChronoNumeric(y.rest, 2, FALSE)
      d   == ChronoNumeric(mo.rest, 2, FALSE)
      h   == ChronoNumeric(d.rest, 2, FALSE)
      mi  == ChronoNumeric(h.rest, 2, FALSE)
      sec == ChronoNumeric(mi.rest, 2, FALSE)
      dot == ChronoLiteral(sec.rest)
      ns  == ChronoNumeric(dot.rest, 9, FALSE)
  IN IF ~y.ok THEN bad
     ELSE IF ~mo.ok THEN bad
     ELSE IF ~d.ok THEN bad
     ELSE IF ~h.ok THEN bad
     ELSE IF ~mi.ok THEN bad
     ELSE IF ~sec.ok THEN bad
     ELSE IF ~dot.ok THEN bad
     ELSE IF ~ns.ok THEN bad
     ELSE IF Len(ns.rest) # 0 THEN bad
     ELSE ChronoToDateTime(y.val, mo.val, d.val, h.val, mi.val, sec.val,
                           ns.val, off)

\* FixedOffset::east accepts -86400 < secs < 86400 and panics otherwise
ChronoOffsetLimit == 86400

\* the value of tz_min * 60 / minutes_offset * 60 when it does not panic
OffsetSeconds(m) == IF MulOverflows(m) THEN WrappingMul60(m) ELSE m * 60

\* impl FromStr for WMIDateTime, #[cfg(not(feature = "time-instead-of-chrono"))]
\* checks: the build has overflow checks (debug) or wraps (release)
FromStrChrono(s, checks) ==
  IF Len(s) < 21
  THEN [res |-> Err("ConvertDatetimeError", "none"), steps |-> <<"length">>]
  ELSE IF ~IsCharBoundary(s, 21)
  THEN [res |-> Panic("split_at"), steps |-> <<"length", "offset">>]
  ELSE LET tz == ParseI32(SliceFrom(s, 21)) IN
    IF ~tz.ok
    THEN [res |-> Err("ParseIntError", "none"), steps |-> <<"length", "offset">>]
    ELSE IF checks /\ MulOverflows(tz.val)
    THEN [res |-> Panic("multiply with overflow"),
          steps |-> <<"length", "offset">>]
    ELSE IF Abs(OffsetSeconds(tz.val)) >= ChronoOffsetLimit
    THEN [res |-> Panic("FixedOffset::east out of bounds"),
          steps |-> <<"length", "offset">>]
    ELSE [res |-> DatetimeFromStr(SliceTo(s, 21), OffsetSeconds(tz.val)),
          steps |-> <<"length", "offset", "fields">>]


\* ------------------------------------------------------------------------
\* time backend
\* ------------------------------------------------------------------------
\* UtcOffset::from_whole_seconds accepts -86399 ..= 86399
TimeOffsetLimit == 86399

TimeMinYear == -9999
TimeMaxYear == 9999

\* time::parsing::combinator::exactly_n_digits::<n>
ExactlyNDigits(s, n) ==
  IF Len(s) >= n /\ \A i \in 1..n : IsDigit(s[i])
  THEN [ok |-> TRUE, val |-> DigitsValue(SliceTo(s, n), 0),
        rest |-> SliceFrom(s, n)]
  ELSE [ok |-> FALSE, val |-> 0, rest |-> s]

\* TryFrom<Parsed> for PrimitiveDateTime: Date::from_calendar_date and
\* Time::from_hms_nano range checks
TimeConstruct(y, mo, d, h, mi, sec, ns, off) ==
  IF y < TimeMinYear \/ y > TimeMaxYear THEN Err("ParseDatetimeError", "year")
  ELSE IF d > DaysInMonth(y, mo) THEN Err("ParseDatetimeError", "day")
  ELSE IF h > 23 THEN Err("ParseDatetimeError", "hour")
  ELSE IF mi > 59 THEN Err("ParseDatetimeError", "minute")
  ELSE IF sec > 59 THEN Err("ParseDatetimeError", "second")
  ELSE Ok([year |-> y, month |-> mo, day |-> d, hour |-> h, minute |-> mi,
           second |-> sec, nano |-> ns, offset |-> off])

\* the part of from_str after the offset: parse_items over s[4..21] with
\* "[month][day][hour][minute][second].[subsecond digits:6]", set_subsecond
\* of the parsed nanoseconds / 1000, the year from s[..4], the conversion.
TimeDateTime(s, off) ==
  LET mo  == ExactlyNDigits(SubSeq(s, 5, 21), 2)
      d   == ExactlyNDigits(mo.rest, 2)
      h   == ExactlyNDigits(d.rest, 2)
      mi  == ExactlyNDigits(h.rest, 2)
      sec == ExactlyNDigits(mi.rest, 2)
      dot == ChronoLiteral(sec.rest)
      sub == ExactlyNDigits(dot.rest, 6)
      y   == ParseI32(SliceTo(s, 4))
      pre == <<"length", "offset", "fields">>
  IN IF ~mo.ok \/ mo.val < 1 \/ mo.val > 12
     THEN [res |-> Err("ParseDatetimeError", "month"), steps |-> pre]
     ELSE IF ~d.ok \/ d.val < 1
     THEN [res |-> Err("ParseDatetimeError", "day"), steps |-> pre]
     ELSE IF ~h.ok
     THEN [res |-> Err("ParseDatetimeError", "hour"), steps |-> pre]
     ELSE IF ~mi.ok
     THEN [res |-> Err("ParseDatetimeError", "minute"), steps |-> pre]
     ELSE IF ~sec.ok
     THEN [res |-> Err("ParseDatetimeError", "second"), steps |-> pre]
     ELSE IF ~dot.ok
     THEN [res |-> Err("ParseDatetimeError", "literal"), steps |-> pre]
     ELSE IF ~sub.ok
     THEN [res |-> Err("ParseDatetimeError", "subsecond"), steps |-> pre]
     ELSE IF ~y.ok
     THEN [res |-> Err("ParseIntError", "none"),
           steps |-> pre \o <<"subsecond", "year">>]
     ELSE [res |-> TimeConstruct(y.val, mo.val, d.val, h.val, mi.val, sec.val,
                                 (sub.val * 1000) \div 1000, off),
           steps |-> pre \o <<"subsecond", "year", "construct">>]

\* impl FromStr for WMIDateTime, #[cfg(feature = "time-instead-of-chrono")]
FromStrTime(s, checks) ==
  IF Len(s) < 21
  THEN [res |-> Err("ConvertDatetimeError", "none"), steps |-> <<"length">>]
  ELSE IF ~IsCharBoundary(s, 21)
  THEN [res |-> Panic("str slice"), steps |-> <<"length", "offset">>]
  ELSE LET tz == ParseI32(SliceFrom(s, 21)) IN
    IF ~tz.ok
    THEN [res |-> Err("ParseIntError", "none"), steps |-> <<"length", "offset">>]
    ELSE IF checks /\ MulOverflows(tz.val)
    THEN [res |-> Panic("multiply with overflow"),
          steps |-> <<"length", "offset">>]
    ELSE IF Abs(OffsetSeconds(tz.val)) > TimeOffsetLimit
    THEN [res |-> Err("ParseDatetimeError", "offset"),
          steps |-> <<"length", "offset">>]
    ELSE IF ~IsCharBoundary(s, 4)
    THEN [res |-> Panic("str slice"), steps |-> <<"length", "offset", "fields">>]
    ELSE TimeDateTime(s, OffsetSeconds(tz.val))

\* FromStr with the length test off by one (s.len() < 20): a 20-byte input
\* reaches the split at 21
FromStrLen20(s, be, checks) ==
  IF Len(s) = 20
  THEN [res |-> Panic("split_at"), steps |-> <<"length", "offset">>]
  ELSE IF be = "chrono" THEN FromStrChrono(s, checks) ELSE FromStrTime(s, checks)

\* WMIDateTime::from_str of the build
FromStr(s, be, checks) ==
  IF be = "chrono" THEN FromStrChrono(s, checks) ELSE FromStrTime(s, checks)

\* ------------------------------------------------------------------------
\* Formatting
\* ------------------------------------------------------------------------
RECURSIVE StripTrailingZeros(_)
StripTrailingZeros(s) ==
  IF Len(s) > 0 /\ s[Len(s)] = "0"
  THEN StripTrailingZeros(SliceTo(s, Len(s) - 1)) ELSE s

\* YYYY-MM-DDTHH:MM:SS of the local date and time (y already rendered)
DateTimeText(y, dt) ==
  y \o <<"-">> \o PadZero(dt.month, 2) \o <<"-">> \o PadZero(dt.day, 2)
    \o <<"T">> \o PadZero(dt.hour, 2) \o <<":">> \o PadZero(dt.minute, 2)
    \o <<":">> \o PadZero(dt.second, 2)

\* +HH:MM / -HH:MM of an offset in seconds
OffsetText(off) ==
  <<IF off < 0 THEN "-" ELSE "+">> \o PadZero(Abs(off) \div 3600, 2)
     \o <<":">> \o PadZero((Abs(off) \div 60) % 60, 2)

\* chrono: the Debug form of NaiveTime prints no fraction, or 3, 6 or 9 digits
ChronoFraction(ns) ==
  IF ns = 0 THEN <<>>
  ELSE IF ns % 1000000 = 0 THEN <<".">> \o PadZero(ns \div 1000000, 3)
  ELSE IF ns % 1000 = 0 THEN <<".">> \o PadZero(ns \div 1000, 6)
  ELSE <<".">> \o PadZero(ns, 9)

\* DateTime<FixedOffset>::to_rfc3339
ToRfc3339(dt) ==
  LET y == IF dt.year >= 0 /\ dt.year <= 9999 THEN PadZero(dt.year, 4)
           ELSE <<IF dt.year < 0 THEN "-" ELSE "+">> \o PadZero(Abs(dt.year), 4)
  IN [tag |-> "Ok",
      out |-> DateTimeText(y, dt) \o ChronoFraction(dt.nano)
                \o OffsetText(dt.offset)]

\* time: the nine nanosecond digits without their trailing zeros
TimeFraction(ns) ==
  IF ns = 0 THEN <<>> ELSE <<".">> \o StripTrailingZeros(PadZero(ns, 9))

\* OffsetDateTime::format(&Rfc3339)
FormatRfc3339(dt) ==
  IF dt.year < 0 \/ dt.year > 9999 THEN [tag |-> "Err", out |-> <<>>]
  ELSE IF Abs(dt.offset) % 60 # 0 THEN [tag |-> "Err", out |-> <<>>]
  ELSE [tag |-> "Ok",
        out |-> DateTimeText(PadZero(dt.year, 4), dt) \o TimeFraction(dt.nano)
                  \o (IF dt.offset = 0 THEN <<"Z">> ELSE OffsetText(dt.offset))]

\* impl ser::Serialize for WMIDateTime: the string handed to serialize_str;
\* the time build unwraps the formatting result
SerializeValue(dt, be) ==
  IF be = "chrono" THEN ToRfc3339(dt)
  ELSE LET f == FormatRfc3339(dt) IN
       IF f.tag = "Ok" THEN f ELSE [tag |-> "Panic", out |-> <<>>]

\* ------------------------------------------------------------------------
\* Decode adapter
\* ------------------------------------------------------------------------
\* DateTimeVisitor::expecting
Expecting == "a timestamp in WMI format"

NoDecoded == [tag |-> "None", kind |-> "none", msg |-> "none", dt |-> NoDT]

\* VisitStr that drops the parser's message (E::custom of a fixed text)
VisitStrNoMessage(parsed) ==
  IF parsed.tag = "Ok"
  THEN [tag |-> "Ok", kind |-> "none", msg |-> "none", dt |-> parsed.dt]
  ELSE IF parsed.tag = "Err"
  THEN [tag |-> "Err", kind |-> "custom", msg |-> "invalid datetime",
        dt |-> NoDT]
  ELSE [tag |-> "Panic", kind |-> "none", msg |-> "none", dt |-> NoDT]

\* DateTimeVisitor::visit_str: value.parse().map_err(|err| E::custom(format!("{}", err)))
VisitStr(parsed) ==
  IF parsed.tag = "Ok"
  THEN [tag |-> "Ok", kind |-> "none", msg |-> "none", dt |-> parsed.dt]
  ELSE IF parsed.tag = "Err"
  THEN [tag |-> "Err", kind |-> "custom", msg |-> parsed.err, dt |-> NoDT]
  ELSE [tag |-> "Panic", kind |-> "none", msg |-> "none", dt |-> NoDT]

\* the visitor's other visit_* methods are serde's defaults:
\* Err(Error::invalid_type(unexpected, &self)), rendered with expecting()
VisitOther == [tag |-> "Err", kind |-> "invalid_type", msg |-> Expecting,
               dt |-> NoDT]

\* ------------------------------------------------------------------------
\* Inputs
\* ------------------------------------------------------------------------
\* zero digits a generated offset tail may carry after its sign
MaxPad == 1

Zeros(k) == [i \in 1..k |-> "0"]

\* the bytes before the separator
DateOpts ==
  { <<"2", "0", "1", "9", "0", "1", "1", "3", "2", "0", "0", "5", "1", "7">>,
    <<"2", "0", "1", "9", " ", "1", " ", "3", " ", "8", " ", "5", " ", "7">>,
    <<"+", "2", "0", "1", "0", "1", "1", "3", "2", "0", "0", "5", "1", "7">>,
    <<"-", "2", "0", "1", "0", "1", "1", "3", "2", "0", "0", "5", "1", "7">>,
    <<"-", "2", "0", "1", " ", "1", " ", "3", " ", "8", " ", "5", " ", "7">>,
    <<"2", "0", "1", "9", "0", "2", "3", "0", "2", "0", "0", "5", "1", "7">>,
    <<"2", "0", "1", "9", "1", "3", "1", "3", "2", "0", "0", "5", "1", "7">>,
    <<"2", "0", "1", "9", "0", "1", "1", "3", "2", "0", "0", "5", "6", "0">>,
    <<"2", "0", "1", "9", "0", "1", "1", "3", "2", "4", "0", "5", "1", "7">>,
    <<"2", "0", "1", "9", "0", "1", "1", "3", "2", "0", "0", "5", "1", "a">>,
    <<"0", "0", "0", "0", "0", "1", "0", "1", "0", "0", "0", "0", "0", "0">>,
    <<"2", "0", LeadByte, ContByte, "9", "0", "1", "1", "3", "2", "0", "0", "5", "1", "7">>,
    <<"2", "0", "1", LeadByte, ContByte, "1", "1", "3", "2", "0", "0", "5", "1", "7">> }

\* the separator
SepOpts ==
  { <<".">>,
    <<":">> }

\* the raw subsecond field
SubsecondOpts ==
  { <<"5", "0", "0", "0", "0", "0">>,
    <<"0", "0", "0", "0", "0", "0">>,
    <<"0", "0", "0", "9", "9", "9">>,
    <<"0", "0", "1", "0", "0", "0">>,
    <<"1", "2", "3", "4", "5", "6">>,
    <<"9", "9", "9", "9", "9", "9">>,
    <<"5", "0", "1", "0", "0", "0">>,
    <<"5", "0", "0", "0", "0", LeadByte, ContByte>>,
    <<" ", "5", "0", "0", "0", "0">>,
    <<"5", "0", "0", "0", "a", "0">>,
    <<"+", "5", "0", "0", "0", "0">> }

\* magnitudes of the offset in minutes
OffsetDigits ==
  { <<"0", "6", "0">>,
    <<"1", "8", "0">>,
    <<"0", "0", "0">>,
    <<"1", "4", "3", "9">>,
    <<"1", "4", "4", "0">>,
    <<"1", "5", "0", "0">>,
    <<"7", "1", "5", "8", "2", "7", "8", "8">>,
    <<"3", "5", "7", "9", "1", "3", "9", "5">> }

\* tails that are no sign-and-digits offset, or overflow i32
OddTails ==
  { <<>>,
    <<"a", "b", "c">>,
    <<"+">>,
    <<"0", "6", "0">>,
    <<" ", "0", "6", "0">>,
    <<"+", "0", "x", "0">>,
    <<LeadByte, ContByte>>,
    <<"+", "9", "9", "9", "9", "9", "9", "9", "9", "9", "9", "9">> }


TailOpts ==
  OddTails \cup
  { <<sg>> \o Zeros(k) \o ds : sg \in {"+", "-"}, k \in 0..MaxPad,
                               ds \in OffsetDigits }

FullInputs ==
  { d \o sp \o f \o t : d \in DateOpts, sp \in SepOpts, f \in SubsecondOpts,
                        t \in TailOpts }

\* the shortened inputs, e.g. "20190113200517" and "20190113200517.50000"
CutLengths == {0, 14, 20}

Inputs ==
  FullInputs \cup
  { SliceTo(s, n) : s \in { d \o sp \o f : d \in DateOpts, sp \in SepOpts,
                                           f \in SubsecondOpts },
                    n \in CutLengths }

\* what the deserializer holds: a string (the input) or another shape
Shapes == {"str", "number", "bool", "seq"}

\* ------------------------------------------------------------------------
\* State machine
\* ------------------------------------------------------------------------
VARIABLES
  backend,    \* "chrono" or "time": the cfg(feature) the crate is built with
  checks,     \* overflow checks on (debug profile) or off (release profile)
  input,      \* the string given to the parser / held by the deserializer
  shape,      \* shape of the deserializer's value, "none" before a decode
  phase,      \* "start", "parsed", "decoded", "serialized"
  result,     \* what from_str returned
  steps,      \* the parser's checks that ran, in order
  decoded,    \* what deserialize returned
  formatted   \* what serialize produced

vars == <<backend, checks, input, shape, phase, result, steps, decoded, formatted>>

NoFormatted == [tag |-> "None", out |-> <<>>]

Init ==
  /\ backend \in {"chrono", "time"}
  /\ checks \in BOOLEAN
  /\ input \in Inputs
  /\ shape = "none"
  /\ phase = "start"
  /\ result = NoResult
  /\ steps = <<>>
  /\ decoded = NoDecoded
  /\ formatted = NoFormatted

\* "...".parse::<WMIDateTime>()
Parse ==
  /\ phase = "start"
  /\ LET r == FromStr(input, backend, checks) IN
       /\ result' = r.res
       /\ steps' = r.steps
  /\ phase' = "parsed"
  /\ UNCHANGED <<backend, checks, input, shape, decoded, formatted>>

\* WMIDateTime::deserialize: deserialize_str drives visit_str for a string
\* and one of the default visit_* methods for any other shape
Deserialize ==
  /\ phase = "start"
  /\ \E sh \in Shapes :
       /\ shape' = sh
       /\ IF sh = "str"
          THEN LET r == FromStr(input, backend, checks) IN
                 /\ result' = r.res
                 /\ steps' = r.steps
                 /\ decoded' = VisitStr(r.res)
          ELSE /\ decoded' = VisitOther
               /\ UNCHANGED <<result, steps>>
  /\ phase' = "decoded"
  /\ UNCHANGED <<backend, checks, input, formatted>>

\* WMIDateTime::serialize of the value a parse or a decode produced
Serialize ==
  /\ phase \in {"parsed", "decoded"}
  /\ result.tag = "Ok"
  /\ formatted' = SerializeValue(result.dt, backend)
  /\ phase' = "serialized"
  /\ UNCHANGED <<backend, checks, input, shape, result, steps, decoded>>

Next == Parse \/ Deserialize \/ Serialize

Spec == Init /\ [][Next]_vars

\* ------------------------------------------------------------------------
\* Properties
\* ------------------------------------------------------------------------
\* the parser has run on the input
Ran == steps # <<>>

\* the error kinds of the specification, as the WMIError the caller sees
MalformedInput == result.tag = "Err" /\ result.err = "ConvertDatetimeError"
\* (an unparsable tail is a ParseIntError; the time build reports a product
\* out of range as a ParseDatetimeError naming the offset)
InvalidOffset ==
  /\ result.tag = "Err"
  /\ \/ result.err = "ParseIntError"
     \/ (result.err = "ParseDatetimeError" /\ result.field = "offset")
  /\ "fields" \notin {steps[i] : i \in 1..Len(steps)}
InvalidDateTimeComponent ==
  result.tag = "Err" /\ result.err = "ParseDatetimeError"
    /\ "fields" \in {steps[i] : i \in 1..Len(steps)}

\* the offset tail of an input of at least 21 bytes, parsed
TailOf(s) == ParseI32(SliceFrom(s, 21))

\* some byte of the year, month, day, hour, minute, second or subsecond
\* field is not a digit
NonDigitField(s) ==
  \E i \in (1..14) \cup (16..21) : ~IsDigit(s[i])

\* YYYYMMDDHHMMSS.ffffff{+|-}UUU
WellFormed(s) ==
  /\ Len(s) >= 23
  /\ \A i \in (1..14) \cup (16..21) : IsDigit(s[i])
  /\ s[15] = "."
  /\ s[22] \in {"+", "-"}
  /\ \A i \in 23..Len(s) : IsDigit(s[i])
  /\ TailOf(s).ok

\* the limit of the offset in seconds of the build's library
OffsetInRange(m) ==
  /\ ~MulOverflows(m)
  /\ IF backend = "chrono" THEN Abs(m * 60) < ChronoOffsetLimit
     ELSE Abs(m * 60) <= TimeOffsetLimit

\* C1: from_str returns Ok or Err for every input and never panics.
C1_NeverPanics == Ran => result.tag \in {"Ok", "Err"}

\* C2: for a well-formed input with raw subsecond field N the formatted
\* output has exactly six fraction digits, N div 1000 padded with zeros.
C2_SixDigitFraction ==
  (phase = "serialized" /\ WellFormed(input)) =>
     /\ formatted.tag = "Ok"
     /\ Len(formatted.out) >= 27
     /\ SubSeq(formatted.out, 20, 26)
          = <<".">> \o PadZero(DigitsValue(SubSeq(input, 16, 21), 0) \div 1000, 6)
     /\ ~IsDigit(formatted.out[27])

\* C3: formatting a parsed Instant succeeds and the output ends with a
\* signed HH:MM offset, never with "Z".
C3_ExplicitOffset ==
  phase = "serialized" =>
     /\ formatted.tag = "Ok"
     /\ LET out == formatted.out
            n   == Len(formatted.out)
        IN /\ n >= 6
           /\ \A i \in 1..n : out[i] # "Z"
           /\ out[n - 5] \in {"+", "-"}
           /\ IsDigit(out[n - 4]) /\ IsDigit(out[n - 3])
           /\ out[n - 2] = ":"
           /\ IsDigit(out[n - 1]) /\ IsDigit(out[n])

\* C4: an offset of m minutes is m * 60 seconds without wrap-around, and a
\* product outside the valid offset range fails with InvalidOffset.
C4_OffsetRangeChecked ==
  (Ran /\ Len(input) >= 21 /\ IsCharBoundary(input, 21) /\ TailOf(input).ok) =>
     /\ ~OffsetInRange(TailOf(input).val) => InvalidOffset
     /\ result.tag = "Ok" => /\ OffsetInRange(TailOf(input).val)
                             /\ result.dt.offset = TailOf(input).val * 60

\* C5 as stated: an input of fewer than 21 characters fails with
\* MalformedInput and only the length check runs.
C5_ShortChars ==
  (Ran /\ CharCount(input) < 21) => (MalformedInput /\ steps = <<"length">>)

\* C5 amended: an input of fewer than 21 bytes fails with MalformedInput and
\* only the length check runs.
C5_ShortBytes ==
  (Ran /\ Len(input) < 21) => (MalformedInput /\ steps = <<"length">>)

C5_Witness ==
  /\ phase = "parsed" /\ Len(input) = 20 /\ CharCount(input) = 19
  /\ MalformedInput

\* C6: an input of at least 21 characters whose tail is empty or not a
\* signed integer fails with InvalidOffset.
C6_BadTailInvalidOffset ==
  (Ran /\ Len(input) >= 21 /\ ~TailOf(input).ok) =>
     (InvalidOffset /\ result.dt = NoDT)

\* C7: a non-digit character in a date/time or subsecond field of an input
\* with a valid offset tail fails with InvalidDateTimeComponent.
C7_NonDigitRejected ==
  (Ran /\ Len(input) >= 21 /\ IsCharBoundary(input, 21) /\ TailOf(input).ok
       /\ OffsetInRange(TailOf(input).val) /\ NonDigitField(input)) =>
     InvalidDateTimeComponent

\* C8: parse then format of a well-formed input keeps the local date and
\* time digits in the layout YYYY-MM-DDTHH:MM:SS and renders the offset m as
\* sign, |m| div 60 and |m| mod 60.
C8_RoundTrip ==
  (phase = "serialized" /\ WellFormed(input)) =>
     /\ formatted.tag = "Ok"
     /\ LET out == formatted.out
            n   == Len(formatted.out)
            m   == TailOf(input).val
        IN /\ n >= 25
           /\ SubSeq(out, 1, 19) =
                SubSeq(input, 1, 4) \o <<"-">> \o SubSeq(input, 5, 6)
                  \o <<"-">> \o SubSeq(input, 7, 8) \o <<"T">>
                  \o SubSeq(input, 9, 10) \o <<":">> \o SubSeq(input, 11, 12)
                  \o <<":">> \o SubSeq(input, 13, 14)
           /\ SubSeq(out, n - 4, n) =
                PadZero(Abs(m) \div 60, 2) \o <<":">> \o PadZero(Abs(m) % 60, 2)
           /\ out[n - 5] = (IF m < 0 THEN "-" ELSE IF m > 0 THEN "+" ELSE out[n - 5])
           /\ out[n - 5] \in {"+", "-"}

\* C9: decoding a value that is not a string fails with a type mismatch
\* expecting "a timestamp in WMI format", without running the parser and
\* without a panic; decoding a string is Ok exactly when the parser is, with
\* the parser's value, and a parser error becomes a custom decode error
\* carrying the parser's message.
C9_DecodeAdapter ==
  shape # "none" =>
     /\ shape # "str" =>
          /\ decoded.tag = "Err" /\ decoded.kind = "invalid_type"
          /\ decoded.msg = "a timestamp in WMI format"
          /\ ~Ran /\ result = NoResult
     /\ shape = "str" =>
          /\ Ran
          /\ decoded.tag = "Ok" <=> result.tag = "Ok"
          /\ result.tag = "Ok" => decoded.dt = result.dt
          /\ result.tag = "Err" =>
               /\ decoded.tag = "Err" /\ decoded.kind = "custom"
               /\ decoded.msg = result.err

C9_Witness ==
  /\ phase = "decoded" /\ shape = "str" /\ Len(input) >= 21
  /\ decoded.tag = "Err" /\ decoded.kind = "custom"
  /\ decoded.msg = "ParseDatetimeError"

\* C10: the checks run in the order length, offset tail, date/time fields
\* and the first failing one decides the error: a short input reports
\* MalformedInput, and an input of at least 21 characters with an invalid
\* tail and a non-digit field reports InvalidOffset.
C10_CheckOrder ==
  Ran =>
     /\ \E k \in 1..3 : SubSeq(steps, 1, k) = SubSeq(<<"length", "offset", "fields">>, 1, k)
                         /\ (Len(steps) > k => k = 3)
     /\ Len(input) < 21 => MalformedInput
     /\ (Len(input) >= 21 /\ ~TailOf(input).ok /\ NonDigitField(input)) =>
          InvalidOffset

====
